---- MODULE Spec2Model ----
(***************************************************************************)
(* Model of spaczz's FuzzySearch (src/src/spaczz/fuzz/fuzzysearch.py):     *)
(* best_match and multi_match over a tokenized Doc, with the scan, the     *)
(* boundary flexing, the trimming rules and the overlap filter.            *)
(*                                                                         *)
(* A Doc is a sequence of tokens; every token of the vocabulary is one     *)
(* character long, so the text of a span is the sequence of its tokens.    *)
(* Python's None is the empty tuple for a match and NoneIdx for an index.  *)
(***************************************************************************)
EXTENDS Integers, Sequences, FiniteSets, TLC

\* ------------------------------------------------------------------ bounds
MaxDocLen == 3
MaxQueryLen == 2
MaxN == 2
LongDocLen == 7
MaxRegexTokens == 3
MaxHits == 2

\* -------------------------------------------------------------- vocabulary
\* Token texts: a lower-case letter, its upper-case form, a punctuation mark.
Vocab == {"x", "X", "."}

Docs == UNION {[1..k -> Vocab] : k \in 0..MaxDocLen}
Queries == UNION {[1..k -> Vocab] : k \in 0..MaxQueryLen}
\* Docs in one case only.
PlainDocs == UNION {[1..k -> {"x", "."}] : k \in 0..MaxDocLen}

\* Token attributes (spaCy Token.is_space / is_punct / is_stop).
is_space(tok) == FALSE
is_punct(tok) == tok = "."
is_stop(tok) == FALSE

\* str.lower() on one character and on a string.
LowerChar(c) == IF c = "X" THEN "x" ELSE c
Lower(s) == [i \in 1..Len(s) |-> LowerChar(s[i])]

\* doc[i:j] for 0 <= i, j <= len(doc); empty when j <= i.
Slice(d, i, j) == IF j <= i THEN <<>> ELSE SubSeq(d, i + 1, j)

\* doc[i] for -len(doc) <= i < len(doc); a negative index counts from the end.
TokenAt(d, i) == IF i < 0 THEN d[Len(d) + i + 1] ELSE d[i + 1]

NoneIdx == -1
NoMatch == <<>>

Max2(a, b) == IF a >= b THEN a ELSE b

\* ------------------------------------------------------------ fuzzy ratio
RECURSIVE LcsLen(_, _)
LcsLen(s, t) ==
  IF s = <<>> \/ t = <<>> THEN 0
  ELSE IF Head(s) = Head(t) THEN 1 + LcsLen(Tail(s), Tail(t))
  ELSE Max2(LcsLen(Tail(s), t), LcsLen(s, Tail(t)))

\* int(round(100 * num / den)), Python 3 rounding (half to even).
RoundPct(num, den) ==
  LET q == (100 * num) \div den
      r == (100 * num) % den
  IN IF 2 * r > den \/ (2 * r = den /\ q % 2 = 1) THEN q + 1 ELSE q

\* The "simple" scorer: 100 for equal strings, 0 when one is empty, otherwise
\* 2 * matches / (len(s1) + len(s2)) as a rounded percentage.
SimpleRatio(s, t) ==
  IF s = t THEN 100
  ELSE IF s = <<>> \/ t = <<>> THEN 0
  ELSE RoundPct(2 * LcsLen(s, t), Len(s) + Len(t))

\* The registry of fuzzy matching functions.
FuzzyFuncs == {"simple"}
get_fuzzy_func_known(fuzzy_func) == fuzzy_func \in FuzzyFuncs

\* Only the first string is lower-cased.
Mut_MatchLowersFirstOnly(str1, str2, fuzzy_func, ignore_case) ==
  SimpleRatio(IF ignore_case THEN Lower(str1) ELSE str1, str2)

\* FuzzySearch.match: lower-cases both strings when ignore_case, then scores.
Match(str1, str2, fuzzy_func, ignore_case) ==
  LET a == IF ignore_case THEN Lower(str1) ELSE str1
      b == IF ignore_case THEN Lower(str2) ELSE str2
  IN SimpleRatio(a, b)

\* ---------------------------------------------------------------- trimmers
\* The trimmer registry: key name -> predicate on a token.
TrimFunc(key, tok) ==
  CASE key = "space" -> is_space(tok)
    [] key = "punct" -> is_punct(tok)
    [] key = "stop" -> is_stop(tok)

\* FuzzyConfig.get_trimmers: the direction agnostic keys united with the keys
\* of the given side (None is the empty set).
get_trimmers(side, trimmers, start_trimmers, end_trimmers) ==
  IF side = "start" THEN trimmers \cup start_trimmers
  ELSE trimmers \cup end_trimmers

\* any([func(tok) for func in trimmer_funcs])
AnyTrim(funcs, tok) == \E k \in funcs : TrimFunc(k, tok)

\* _enforce_end_trimmers: the while loop of lines 420-423.
RECURSIVE EndTrimLoop(_, _, _, _)
EndTrimLoop(d, bp_l, bp_r, funcs) ==
  IF AnyTrim(funcs, TokenAt(d, bp_r - 1))
  THEN IF bp_r - 1 <= bp_l THEN NoneIdx
       ELSE EndTrimLoop(d, bp_l, bp_r - 1, funcs)
  ELSE bp_r

_enforce_end_trimmers(d, bp_l, bp_r, trimmers, end_trimmers) ==
  LET funcs == get_trimmers("end", trimmers, {}, end_trimmers)
  IN IF funcs # {} THEN EndTrimLoop(d, bp_l, bp_r, funcs) ELSE bp_r

\* _enforce_start_trimmers: the while loop of lines 467-472, then the
\* final comparison of lines 473-476.
RECURSIVE StartTrimLoop(_, _, _, _)
StartTrimLoop(d, bp_l, bp_r, funcs) ==
  IF AnyTrim(funcs, TokenAt(d, bp_l))
  THEN IF bp_l >= bp_r THEN NoneIdx
       ELSE IF bp_l + 1 = Len(d) THEN NoneIdx
       ELSE StartTrimLoop(d, bp_l + 1, bp_r, funcs)
  ELSE IF bp_l >= bp_r THEN NoneIdx ELSE bp_l

\* Mutant of StartTrimCheck: the comparison of lines 473-474 left out.
Mut_StartTrimNoCheck(bp_l, bp_r) == bp_l

StartTrimCheck(bp_l, bp_r) == IF bp_l >= bp_r THEN NoneIdx ELSE bp_l

_enforce_start_trimmers(d, bp_l, bp_r, trimmers, start_trimmers) ==
  LET funcs == get_trimmers("start", trimmers, start_trimmers, {})
  IN IF funcs # {} THEN StartTrimLoop(d, bp_l, bp_r, funcs)
     ELSE StartTrimCheck(bp_l, bp_r)

\* Python truth value of an Optional[int]: None and 0 are false.
Truthy(i) == i # NoneIdx /\ i # 0

\* _enforce_trimming_rules: <<bp_l, bp_r>>, either of which may be NoneIdx.
_enforce_trimming_rules(d, bp_l, bp_r, trimmers, start_trimmers, end_trimmers) ==
  LET l == _enforce_start_trimmers(d, bp_l, bp_r, trimmers, start_trimmers)
  IN IF Truthy(l)
     THEN <<l, _enforce_end_trimmers(d, l, bp_r, trimmers, end_trimmers)>>
     ELSE <<l, bp_r>>

\* --------------------------------------------------------------- calc_flex
\* Mutant of _calc_flex: a flex above len(query) is set to 1, as the
\* docstring has it, not to len(query).
Mut_CalcFlexSetsOne(q, flex) ==
  IF flex.kind = "default"
  THEN [flex |-> Len(q), warn |-> FALSE, err |-> FALSE]
  ELSE IF flex.kind = "int"
  THEN IF flex.val > Len(q)
       THEN [flex |-> 1, warn |-> TRUE, err |-> FALSE]
       ELSE [flex |-> flex.val, warn |-> FALSE, err |-> FALSE]
  ELSE [flex |-> 0, warn |-> FALSE, err |-> TRUE]

\* A flex argument is [kind |-> "default"], [kind |-> "int", val |-> k] or
\* [kind |-> "other"] (any value that is neither "default" nor an int).
\* The result carries the flex value, the FlexWarning flag and the TypeError flag.
_calc_flex(q, flex) ==
  IF flex.kind = "default"
  THEN [flex |-> Len(q), warn |-> FALSE, err |-> FALSE]
  ELSE IF flex.kind = "int"
  THEN IF flex.val > Len(q)
       THEN [flex |-> Len(q), warn |-> TRUE, err |-> FALSE]
       ELSE [flex |-> flex.val, warn |-> FALSE, err |-> FALSE]
  ELSE [flex |-> 0, warn |-> FALSE, err |-> TRUE]

\* ---------------------------------------------------------------- scanning
\* _scan_doc: the while loop of lines 630-637, from window start i with the
\* dict built so far.
\* Mutant of ScanLoop: a window is kept only above min_r1, not at min_r1.
RECURSIVE Mut_ScanLoopAboveMinR1(_, _, _, _, _, _, _)
Mut_ScanLoopAboveMinR1(d, q, fuzzy_func, min_r1, ignore_case, i, match_values) ==
  IF i + Len(q) <= Len(d)
  THEN LET m == Match(q, Slice(d, i, i + Len(q)), fuzzy_func, ignore_case)
           mv == IF m > min_r1
                 THEN [k \in DOMAIN match_values \cup {i} |->
                         IF k = i THEN m ELSE match_values[k]]
                 ELSE match_values
       IN Mut_ScanLoopAboveMinR1(d, q, fuzzy_func, min_r1, ignore_case, i + 1, mv)
  ELSE match_values

RECURSIVE ScanLoop(_, _, _, _, _, _, _)
ScanLoop(d, q, fuzzy_func, min_r1, ignore_case, i, match_values) ==
  IF i + Len(q) <= Len(d)
  THEN LET m == Match(q, Slice(d, i, i + Len(q)), fuzzy_func, ignore_case)
           mv == IF m >= min_r1
                 THEN [k \in DOMAIN match_values \cup {i} |->
                         IF k = i THEN m ELSE match_values[k]]
                 ELSE match_values
       IN ScanLoop(d, q, fuzzy_func, min_r1, ignore_case, i + 1, mv)
  ELSE match_values

EmptyDict == [k \in {} |-> 0]

_scan_doc(d, q, fuzzy_func, min_r1, ignore_case) ==
  ScanLoop(d, q, fuzzy_func, min_r1, ignore_case, 0, EmptyDict)

\* Number of windows _scan_doc scores.
ScanWindows(d, q) == IF Len(q) <= Len(d) THEN Len(d) - Len(q) + 1 ELSE 0

\* --------------------------------------------------------------- selection
\* The sort key (-match_values[x], x).
KeyBefore(mv, a, b) == mv[a] > mv[b] \/ (mv[a] = mv[b] /\ a < b)

\* sorted(match_values, key=lambda x: (-match_values[x], x))
RECURSIVE SortedKeys(_, _)
SortedKeys(mv, keys) ==
  IF keys = {} THEN <<>>
  ELSE LET first == CHOOSE a \in keys : \A b \in keys \ {a} : KeyBefore(mv, a, b)
       IN <<first>> \o SortedKeys(mv, keys \ {first})

\* The keys of a dict in insertion order; _scan_doc inserts them ascending.
RECURSIVE AscendingKeys(_)
AscendingKeys(keys) ==
  IF keys = {} THEN <<>>
  ELSE LET first == CHOOSE a \in keys : \A b \in keys : a <= b
       IN <<first>> \o AscendingKeys(keys \ {first})

\* seq[:n] for n >= 0.
Prefix(seq, n) == IF n >= Len(seq) THEN seq ELSE SubSeq(seq, 1, n)

\* Mutant of _indice_maxes: the slice [:n] of line 744 left out.
Mut_IndiceNoCap(mv, n) == SortedKeys(mv, DOMAIN mv)

\* Mutant of _indice_maxes: the sort of line 744 left out.
Mut_IndiceUnsorted(mv, n) ==
  IF n # 0 THEN Prefix(AscendingKeys(DOMAIN mv), n)
  ELSE AscendingKeys(DOMAIN mv)

\* _indice_maxes
_indice_maxes(mv, n) ==
  IF n # 0 THEN Prefix(SortedKeys(mv, DOMAIN mv), n)
  ELSE AscendingKeys(DOMAIN mv)

\* Mutant of _index_max: among the keys with the highest ratio the last one.
Mut_IndexMaxLastTie(mv) ==
  IF DOMAIN mv = {} THEN NoneIdx
  ELSE CHOOSE k \in DOMAIN mv :
         \A j \in DOMAIN mv : mv[j] < mv[k] \/ (mv[j] = mv[k] /\ j <= k)

\* _index_max: the first sorted key, NoneIdx on IndexError.
_index_max(mv) ==
  IF DOMAIN mv = {} THEN NoneIdx ELSE SortedKeys(mv, DOMAIN mv)[1]

\* Mutant of FlexStep: an edge also moves to a position whose ratio equals
\* the best so far.
Mut_FlexStepNotStrict(d, q, p_l, p_r, fuzzy_func, ignore_case, f, st) ==
  LET ll_ok == p_l - f >= 0
                 /\ Match(q, Slice(d, p_l - f, p_r), fuzzy_func, ignore_case) >= st.bmv_l
      s1 == IF ll_ok
            THEN [st EXCEPT !.bmv_l = Match(q, Slice(d, p_l - f, p_r), fuzzy_func, ignore_case),
                            !.bp_l = p_l - f]
            ELSE st
      lr == Match(q, Slice(d, p_l + f, p_r), fuzzy_func, ignore_case)
      s2 == IF lr >= s1.bmv_l /\ p_l + f < p_r
            THEN [s1 EXCEPT !.bmv_l = lr, !.bp_l = p_l + f]
            ELSE s1
      rl == Match(q, Slice(d, p_l, p_r - f), fuzzy_func, ignore_case)
      s3 == IF rl >= s2.bmv_r /\ p_r - f > p_l
            THEN [s2 EXCEPT !.bmv_r = rl, !.bp_r = p_r - f]
            ELSE s2
      rr_ok == p_r + f <= Len(d)
                 /\ Match(q, Slice(d, p_l, p_r + f), fuzzy_func, ignore_case) >= s3.bmv_r
      s4 == IF rr_ok
            THEN [s3 EXCEPT !.bmv_r = Match(q, Slice(d, p_l, p_r + f), fuzzy_func, ignore_case),
                            !.bp_r = p_r + f]
            ELSE s3
  IN s4

\* ------------------------------------------------------------ optimization
\* One pass of the flex loop (lines 346-369) for shift f: the four perturbed
\* spans in the order ll, lr, rl, rr, each against the fixed opposite edge.
FlexStep(d, q, p_l, p_r, fuzzy_func, ignore_case, f, st) ==
  LET ll_ok == p_l - f >= 0
                 /\ Match(q, Slice(d, p_l - f, p_r), fuzzy_func, ignore_case) > st.bmv_l
      s1 == IF ll_ok
            THEN [st EXCEPT !.bmv_l = Match(q, Slice(d, p_l - f, p_r), fuzzy_func, ignore_case),
                            !.bp_l = p_l - f]
            ELSE st
      lr == Match(q, Slice(d, p_l + f, p_r), fuzzy_func, ignore_case)
      s2 == IF lr > s1.bmv_l /\ p_l + f < p_r
            THEN [s1 EXCEPT !.bmv_l = lr, !.bp_l = p_l + f]
            ELSE s1
      rl == Match(q, Slice(d, p_l, p_r - f), fuzzy_func, ignore_case)
      s3 == IF rl > s2.bmv_r /\ p_r - f > p_l
            THEN [s2 EXCEPT !.bmv_r = rl, !.bp_r = p_r - f]
            ELSE s2
      rr_ok == p_r + f <= Len(d)
                 /\ Match(q, Slice(d, p_l, p_r + f), fuzzy_func, ignore_case) > s3.bmv_r
      s4 == IF rr_ok
            THEN [s3 EXCEPT !.bmv_r = Match(q, Slice(d, p_l, p_r + f), fuzzy_func, ignore_case),
                            !.bp_r = p_r + f]
            ELSE s3
  IN s4

\* for f in range(1, flex + 1)
RECURSIVE FlexLoop(_, _, _, _, _, _, _, _, _)
FlexLoop(d, q, p_l, p_r, fuzzy_func, ignore_case, flex, f, st) ==
  IF f > flex THEN st
  ELSE FlexLoop(d, q, p_l, p_r, fuzzy_func, ignore_case, flex, f + 1,
                FlexStep(d, q, p_l, p_r, fuzzy_func, ignore_case, f, st))

\* The flexed edges before trimming (lines 340-369).
FlexedEdges(d, q, match_values, pos, fuzzy_func, ignore_case, flex) ==
  LET p_l == pos
      p_r == pos + Len(q)
      st0 == [bp_l |-> p_l, bmv_l |-> match_values[p_l],
              bp_r |-> p_r, bmv_r |-> match_values[p_l]]
  IN IF flex # 0
     THEN FlexLoop(d, q, p_l, p_r, fuzzy_func, ignore_case, flex, 1, st0)
     ELSE st0

\* Mutant of FinalMatch: the min_r2 test of line 375 left out.
Mut_FinalMatchNoMinR2(d, q, edges, fuzzy_func, min_r2, ignore_case) ==
  IF edges[1] # NoneIdx /\ edges[2] # NoneIdx
  THEN <<edges[1], edges[2],
         Match(q, Slice(d, edges[1], edges[2]), fuzzy_func, ignore_case)>>
  ELSE NoMatch

\* Mutant of FinalMatch: the ratio must be above min_r2, not at least min_r2.
Mut_FinalMatchAboveMinR2(d, q, edges, fuzzy_func, min_r2, ignore_case) ==
  IF edges[1] # NoneIdx /\ edges[2] # NoneIdx
  THEN LET r == Match(q, Slice(d, edges[1], edges[2]), fuzzy_func, ignore_case)
       IN IF r > min_r2 THEN <<edges[1], edges[2], r>> ELSE NoMatch
  ELSE NoMatch

\* The value returned for trimmed edges <<bp_l, bp_r>> (lines 373-377).
FinalMatch(d, q, edges, fuzzy_func, min_r2, ignore_case) ==
  IF edges[1] # NoneIdx /\ edges[2] # NoneIdx
  THEN LET r == Match(q, Slice(d, edges[1], edges[2]), fuzzy_func, ignore_case)
       IN IF r >= min_r2 THEN <<edges[1], edges[2], r>> ELSE NoMatch
  ELSE NoMatch

\* Mutant of _adjust_left_right_positions: the ratio found while flexing the
\* left edge is returned instead of the ratio of the trimmed span.
Mut_AdjustPreTrimRatio(d, q, match_values, pos, fuzzy_func, min_r2, ignore_case, flex, trimmers, start_trimmers, end_trimmers) ==
  LET st == FlexedEdges(d, q, match_values, pos, fuzzy_func, ignore_case, flex)
      edges == _enforce_trimming_rules(d, st.bp_l, st.bp_r, trimmers,
                                       start_trimmers, end_trimmers)
  IN IF edges[1] # NoneIdx /\ edges[2] # NoneIdx /\ st.bmv_l >= min_r2
     THEN <<edges[1], edges[2], st.bmv_l>>
     ELSE NoMatch

\* _adjust_left_right_positions: a match <<start, end, ratio>> or NoMatch.
_adjust_left_right_positions(d, q, match_values, pos, fuzzy_func, min_r2, ignore_case, flex, trimmers, start_trimmers, end_trimmers) ==
  LET st == FlexedEdges(d, q, match_values, pos, fuzzy_func, ignore_case, flex)
      edges == _enforce_trimming_rules(d, st.bp_l, st.bp_r, trimmers,
                                       start_trimmers, end_trimmers)
  IN FinalMatch(d, q, edges, fuzzy_func, min_r2, ignore_case)

\* ------------------------------------------------------- sorting, overlaps
\* The sort key (-x[2], x[0]) of a match.
MatchBefore(a, b) == a[3] > b[3] \/ (a[3] = b[3] /\ a[1] < b[1])

\* Stable insertion of m into a sorted list: after every element that does
\* not sort strictly after it.
RECURSIVE InsertSorted(_, _)
InsertSorted(m, sorted) ==
  IF sorted = <<>> THEN <<m>>
  ELSE IF MatchBefore(m, Head(sorted)) THEN <<m>> \o sorted
  ELSE <<Head(sorted)>> \o InsertSorted(m, Tail(sorted))

\* Mutant of SortMatches: the list is left in the order of the candidates.
Mut_NoSort(matches) == matches

\* sorted(matches, key=lambda x: (-x[2], x[0])), a stable sort.
RECURSIVE SortMatches(_)
SortMatches(matches) ==
  IF matches = <<>> THEN <<>>
  ELSE InsertSorted(matches[Len(matches)],
                    SortMatches(SubSeq(matches, 1, Len(matches) - 1)))

\* Mutant of Overlap: the end index taken as part of the range.
Mut_OverlapClosed(a, b) == \E i \in a[1]..a[2] : i \in b[1]..b[2]

\* set(range(a[0], a[1])) meets set(range(b[0], b[1]))
Overlap(a, b) == \E i \in a[1]..(a[2] - 1) : i \in b[1]..(b[2] - 1)

\* _filter_overlapping_matches: the for loop, with the list kept so far.
RECURSIVE FilterLoop(_, _)
FilterLoop(matches, filtered) ==
  IF matches = <<>> THEN filtered
  ELSE LET m == Head(matches)
       IN IF \E i \in 1..Len(filtered) : Overlap(m, filtered[i])
          THEN FilterLoop(Tail(matches), filtered)
          ELSE FilterLoop(Tail(matches), Append(filtered, m))

\* Mutant of _filter_overlapping_matches: every match is kept.
Mut_KeepAll(matches) == matches

_filter_overlapping_matches(matches) == FilterLoop(matches, <<>>)

\* [match for match in matches if match]
DropNone(matches) == SelectSeq(matches, LAMBDA m : m # NoMatch)

\* ----------------------------------------------------------- precheck_query
\* Mutant of _precheck_query: only the query's first token is tested.
Mut_PrecheckFirstTokenOnly(q, query_type, trimmers, start_trimmers, end_trimmers) ==
  LET start_funcs == get_trimmers("start", trimmers, start_trimmers, {})
      end_funcs == get_trimmers("end", trimmers, {}, end_trimmers)
  IN IF query_type # "Doc" THEN [err |-> "TypeError", warn |-> FALSE]
     ELSE IF Len(q) = 0 /\ (start_funcs # {} \/ end_funcs # {})
     THEN [err |-> "IndexError", warn |-> FALSE]
     ELSE [err |-> "", warn |-> AnyTrim(start_funcs, q[1])]

\* _precheck_query: the error it raises ("" for none) and whether it warns.
\* query[0] and query[-1] are evaluated once per trimmer function, so an
\* empty query raises IndexError only when some trimmer function is active.
_precheck_query(q, query_type, trimmers, start_trimmers, end_trimmers) ==
  LET start_funcs == get_trimmers("start", trimmers, start_trimmers, {})
      end_funcs == get_trimmers("end", trimmers, {}, end_trimmers)
  IN IF query_type # "Doc" THEN [err |-> "TypeError", warn |-> FALSE]
     ELSE IF Len(q) = 0 /\ (start_funcs # {} \/ end_funcs # {})
     THEN [err |-> "IndexError", warn |-> FALSE]
     ELSE [err |-> "",
           warn |-> AnyTrim(start_funcs, q[1]) \/ AnyTrim(end_funcs, q[Len(q)])]

\* n = int(len(doc) / len(query) + 2), line 251: the error it raises ("" for
\* none) and the value.  len() of a value without a length is a TypeError.
DefaultN(d, q, query_type) ==
  IF query_type = "NoneType" THEN [err |-> "TypeError", n |-> 0]
  ELSE IF Len(q) = 0 THEN [err |-> "ZeroDivisionError", n |-> 0]
  ELSE [err |-> "", n |-> (Len(d) \div Len(q)) + 2]

\* ------------------------------------------------------------------ inputs
Thresholds == {<<0, 50>>, <<50, 75>>}
FlexArgs == {[kind |-> "default"], [kind |-> "int", val |-> 0],
             [kind |-> "int", val |-> 1]}
\* <<trimmers, start_trimmers, end_trimmers>>
TrimArgs == {<<{}, {}, {}>>, <<{"punct"}, {}, {}>>,
             <<{}, {"punct"}, {}>>, <<{}, {}, {"punct"}>>}

Args(d, doc_type, q, query_type, fuzzy_func, th, ignore_case, flex, tr) ==
  [doc |-> d, doc_type |-> doc_type, query |-> q, query_type |-> query_type,
   fuzzy_func |-> fuzzy_func, min_r1 |-> th[1], min_r2 |-> th[2],
   ignore_case |-> ignore_case, flex |-> flex,
   trimmers |-> tr[1], start_trimmers |-> tr[2], end_trimmers |-> tr[3]]

\* <<flex, <<trimmers, start_trimmers, end_trimmers>>>>: every flex without
\* trimmers, every trimmer choice with the default flex, and no flex with the
\* direction agnostic trimmer.
FlexTrimArgs ==
  (FlexArgs \X {<<{}, {}, {}>>})
    \cup ({[kind |-> "default"]} \X TrimArgs)
    \cup {<<[kind |-> "int", val |-> 0], <<{"punct"}, {}, {}>>>>}

\* ------------------------------------------------------------------- state
VARIABLES
  args,          \* the arguments of the calls
  pc,            \* "idle", "scan", "optimize", "done"
  op,            \* "best_match" or "multi_match"
  n_arg,         \* the n the caller passed to multi_match
  n,             \* the n in effect after line 251
  flex,          \* the flex value _calc_flex returned
  match_values,  \* the dict _scan_doc returned
  scans,         \* number of windows scored so far
  warnings,      \* the warnings signalled by the call
  outcome,       \* "", "returned" or the name of the exception raised
  result,        \* returned matches: best_match's None is <<>>, a match <<m>>
  remembered,    \* history: an earlier call and what it gave
  unit           \* a helper method called on its own, and what it gave

vars == <<args, pc, op, n_arg, n, flex, match_values, scans, warnings, outcome, result, remembered, unit>>

\* No call remembered, no helper called.
NoCall == [op |-> "", n_arg |-> 0, outcome |-> "", result |-> <<>>, between |-> FALSE]
NoUnit == [fn |-> "", in |-> <<>>, out |-> <<>>]

\* The searcher before a call, with the arguments a of the calls to come.
InitWith(a) ==
  /\ args = a
  /\ pc = "idle"
  /\ op = ""
  /\ n_arg = 0
  /\ n = 0
  /\ flex = 0
  /\ match_values = EmptyDict
  /\ scans = 0
  /\ warnings = {}
  /\ outcome = ""
  /\ result = <<>>
  /\ remembered = NoCall
  /\ unit = NoUnit

\* Well-typed, case-sensitive calls: every flex without trimmers on every
\* doc; on the docs in one case, every flex and trimmer choice under the lower
\* thresholds, and the default flex with and without the direction agnostic
\* trimmer under the higher ones.
GoodInputs ==
  \/ \E d \in Docs, q \in Queries, f \in FlexArgs :
       InitWith(Args(d, "Doc", q, "Doc", "simple", <<0, 50>>, FALSE, f, <<{}, {}, {}>>))
  \/ \E d \in PlainDocs, q \in Queries, ft \in FlexTrimArgs :
       InitWith(Args(d, "Doc", q, "Doc", "simple", <<0, 50>>, FALSE, ft[1], ft[2]))
  \/ \E d \in PlainDocs, q \in Queries, tr \in {<<{}, {}, {}>>, <<{"punct"}, {}, {}>>} :
       InitWith(Args(d, "Doc", q, "Doc", "simple", <<50, 75>>, FALSE,
                     [kind |-> "default"], tr))

\* Well-typed calls that ignore case.
CaseInputs ==
  \E d \in Docs, q \in Queries, th \in Thresholds :
    InitWith(Args(d, "Doc", q, "Doc", "simple", th, TRUE, [kind |-> "default"],
                  <<{}, {}, {}>>))

\* Calls with a doc or a query that is not a Doc: a str (empty or not), None.
BadInputs ==
  \E d \in {<<"x">>, <<"x", "X">>}, dt \in {"Doc", "str"},
     q \in {<<>>, <<"x">>}, qt \in {"Doc", "str", "NoneType"},
     tr \in {<<{}, {}, {}>>, <<{"punct"}, {}, {}>>} :
    InitWith(Args(d, dt, q, qt, "simple", <<0, 50>>, TRUE, [kind |-> "default"], tr))

\* Queries one token longer than the others, over docs one token longer, so
\* that both edges of a window can be flexed past each other.
WideInputs ==
  \E d \in [1..(MaxDocLen + 1) -> {".", "x"}],
     q \in [1..(MaxQueryLen + 1) -> Vocab], tr \in TrimArgs :
    InitWith(Args(d, "Doc", q, "Doc", "simple", <<0, 50>>, FALSE,
                  [kind |-> "default"], tr))

\* Docs long enough for more windows than floor(len(doc) / len(query)) + 2.
LongInputs ==
  \E d \in [1..LongDocLen -> {".", "x"}], q \in {<<".", ".">>, <<".", "X">>} :
    InitWith(Args(d, "Doc", q, "Doc", "simple", <<0, 50>>, FALSE,
                  [kind |-> "default"], <<{}, {}, {}>>))

\* Well-typed calls that name a fuzzy matching function the registry lacks;
\* the longer query has no window in the shorter docs.
UnknownFuncInputs ==
  \E d \in {<<"x">>, <<"x", "X">>, <<"x", "X", "x">>},
     q \in {<<"x">>, <<"x", "X">>}, th \in Thresholds :
    InitWith(Args(d, "Doc", q, "Doc", "unknown", th, TRUE, [kind |-> "default"],
                  <<{}, {}, {}>>))

\* Flex arguments at the edges: an int above len(query), a negative int, and
\* a value that is neither "default" nor an int (None).
EdgeFlexArgs == {[kind |-> "int", val |-> 2], [kind |-> "int", val |-> 0 - 1],
                 [kind |-> "other"]}

FlexInputs ==
  \E d \in [1..MaxDocLen -> {"x", "."}], q \in {<<"x">>, <<"x", ".">>},
     f \in EdgeFlexArgs :
    InitWith(Args(d, "Doc", q, "Doc", "simple", <<0, 50>>, FALSE, f, <<{}, {}, {}>>))

Init ==
  \/ GoodInputs
  \/ CaseInputs
  \/ BadInputs
  \/ WideInputs
  \/ UnknownFuncInputs
  \/ FlexInputs

\* The call raises exception e: nothing is returned.
Raise(e) ==
  /\ pc' = "done"
  /\ outcome' = e
  /\ result' = <<>>

\* Lines 123-124 / 252-253: _precheck_query, then _calc_flex.
PrecheckAndFlex ==
  LET pq == _precheck_query(args.query, args.query_type, args.trimmers,
                            args.start_trimmers, args.end_trimmers)
      cf == _calc_flex(args.query, args.flex)
  IN IF pq.err # "" THEN Raise(pq.err) /\ UNCHANGED <<flex, warnings>>
     ELSE IF cf.err
     THEN /\ Raise("TypeError")
          /\ warnings' = (IF pq.warn THEN {"FuzzyPrecheckWarning"} ELSE {})
          /\ UNCHANGED flex
     ELSE /\ pc' = "scan"
          /\ flex' = cf.flex
          /\ warnings' = (IF pq.warn THEN {"FuzzyPrecheckWarning"} ELSE {})
                           \cup (IF cf.warn THEN {"FlexWarning"} ELSE {})
          /\ UNCHANGED <<outcome, result>>

\* best_match, lines 121-124.
BestMatchCall ==
  /\ pc = "idle"
  /\ op' = "best_match"
  /\ UNCHANGED <<args, n_arg, n, match_values, scans, remembered, unit>>
  /\ IF args.doc_type # "Doc"
     THEN Raise("TypeError") /\ UNCHANGED <<flex, warnings>>
     ELSE PrecheckAndFlex

\* multi_match, lines 248-253.
MultiMatchCall ==
  \E k \in 0..MaxN :
    /\ pc = "idle"
    /\ op' = "multi_match"
    /\ n_arg' = k
    /\ UNCHANGED <<args, match_values, scans, remembered, unit>>
    /\ IF args.doc_type # "Doc"
       THEN Raise("TypeError") /\ UNCHANGED <<n, flex, warnings>>
       ELSE LET dn == IF k = 0
                      THEN DefaultN(args.doc, args.query, args.query_type)
                      ELSE [err |-> "", n |-> k]
            IN IF dn.err # ""
               THEN Raise(dn.err) /\ UNCHANGED <<n, flex, warnings>>
               ELSE n' = dn.n /\ PrecheckAndFlex

\* Lines 125 / 254: _scan_doc.  The scorer is looked up on the first call of
\* match, so an unknown fuzzy_func raises only when there is a window, and
\* before that window is scored.
ScanDoc ==
  /\ pc = "scan"
  /\ UNCHANGED <<args, op, n_arg, n, flex, warnings, remembered, unit>>
  /\ IF ~get_fuzzy_func_known(args.fuzzy_func) /\ ScanWindows(args.doc, args.query) > 0
     THEN Raise("ValueError") /\ UNCHANGED <<match_values, scans>>
     ELSE /\ match_values' = _scan_doc(args.doc, args.query, args.fuzzy_func,
                                       args.min_r1, args.ignore_case)
          /\ scans' = ScanWindows(args.doc, args.query)
          /\ pc' = "optimize"
          /\ UNCHANGED <<outcome, result>>

\* _adjust_left_right_positions on candidate pos with the call's arguments.
Optimize(pos) ==
  _adjust_left_right_positions(args.doc, args.query, match_values, pos,
                               args.fuzzy_func, args.min_r2, args.ignore_case,
                               flex, args.trimmers, args.start_trimmers,
                               args.end_trimmers)

\* The value best_match returns, lines 126-143.
BestMatchResult ==
  LET pos == _index_max(match_values)
  IN IF pos # NoneIdx
     THEN LET m == Optimize(pos) IN IF m = NoMatch THEN <<>> ELSE <<m>>
     ELSE <<>>

\* The candidates multi_match optimizes, line 255.
MultiMatchPositions == _indice_maxes(match_values, n)

\* The optimized candidates, None dropped, lines 256-272.
MultiMatchOptimized ==
  LET positions == MultiMatchPositions
  IN DropNone([i \in 1..Len(positions) |-> Optimize(positions[i])])

\* The value multi_match returns, lines 273-275.
MultiMatchResult ==
  _filter_overlapping_matches(SortMatches(MultiMatchOptimized))

BestMatchOptimize ==
  /\ pc = "optimize"
  /\ op = "best_match"
  /\ result' = BestMatchResult
  /\ outcome' = "returned"
  /\ pc' = "done"
  /\ UNCHANGED <<args, op, n_arg, n, flex, match_values, scans, warnings, remembered, unit>>

MultiMatchOptimize ==
  /\ pc = "optimize"
  /\ op = "multi_match"
  /\ result' = MultiMatchResult
  /\ outcome' = "returned"
  /\ pc' = "done"
  /\ UNCHANGED <<args, op, n_arg, n, flex, match_values, scans, warnings, remembered, unit>>

\* The locals of a call are gone when it is over.
ForgetLocals ==
  /\ pc' = "idle"
  /\ op' = ""
  /\ n_arg' = 0
  /\ n' = 0
  /\ flex' = 0
  /\ match_values' = EmptyDict
  /\ scans' = 0
  /\ warnings' = {}
  /\ outcome' = ""
  /\ result' = <<>>

\* Mutant of Return: the call leaves the caller's doc lower-cased in place.
Mut_ReturnLowersDoc ==
  /\ pc = "done"
  /\ ForgetLocals
  /\ args' = [args EXCEPT !.doc = Lower(args.doc)]
  /\ remembered' = IF remembered = NoCall THEN NoCall
                   ELSE [remembered EXCEPT !.between = TRUE]
  /\ UNCHANGED unit

\* The call is over; the searcher and the caller's arguments are as before.
\* If an earlier call is remembered, this call came between it and the next.
Return ==
  /\ pc = "done"
  /\ ForgetLocals
  /\ remembered' = IF remembered = NoCall THEN NoCall
                   ELSE [remembered EXCEPT !.between = TRUE]
  /\ UNCHANGED <<args, unit>>

\* The call is over and the observer remembers it: which call it was and what
\* it gave.
Remember ==
  /\ pc = "done"
  /\ ForgetLocals
  /\ remembered' = [op |-> op, n_arg |-> n_arg, outcome |-> outcome,
                    result |-> result, between |-> FALSE]
  /\ UNCHANGED <<args, unit>>

Next ==
  \/ BestMatchCall
  \/ MultiMatchCall
  \/ ScanDoc
  \/ BestMatchOptimize
  \/ MultiMatchOptimize
  \/ Return

Spec == Init /\ [][Next]_vars

\* The same calls, over the long docs as well.
InitLong == Init \/ LongInputs

SpecLong == InitLong /\ [][Next]_vars

\* ----------------------------------------------------- calls, remembered
\* Calls on one pair of doc and query, repeated and mixed, where an observer
\* remembers one of them.
HistInputs ==
  \E d \in [1..MaxDocLen -> {"x", "X", "."}],
     q \in UNION {[1..k -> {"x", "."}] : k \in 1..MaxQueryLen},
     tr \in {<<{}, {}, {}>>, <<{"punct"}, {}, {}>>} :
    InitWith(Args(d, "Doc", q, "Doc", "simple", <<0, 50>>, FALSE,
                  [kind |-> "default"], tr))

NextHist == Next \/ Remember

SpecHist == HistInputs /\ [][NextHist]_vars

\* ------------------------------------------------- helpers on their own
\* The helper methods called directly, as the unit tests call them, with
\* arguments the pipeline may never hand them.
UnitKeys == 0..MaxDocLen
UnitRatios == {50, 67, 100}
\* Dicts of start index -> ratio.
UnitDicts == UNION {[ks -> UnitRatios] : ks \in SUBSET UnitKeys}
\* Matches <<start, end, ratio>> with start < end, and lists of them.
UnitMatches == {m \in UnitKeys \X UnitKeys \X {80} : m[1] < m[2]}
UnitMatchLists == UNION {[1..k -> UnitMatches] : k \in 0..(MaxN + 1)}
UnitDocs == UNION {[1..k -> {"x", "."}] : k \in 1..MaxDocLen}

\* doc[i] raises IndexError outside -len(doc) .. len(doc) - 1.
InRange(d, i) == 0 - Len(d) <= i /\ i < Len(d)
\* What a helper that raised IndexError gave: neither an index nor None.
RaisedIndexError == -2

UnitCall(fn, in, out) ==
  /\ unit = NoUnit
  /\ unit' = [fn |-> fn, in |-> in, out |-> out]
  /\ UNCHANGED <<args, pc, op, n_arg, n, flex, match_values, scans, warnings, outcome, result, remembered>>

IndexMaxCall ==
  \E mv \in UnitDicts : UnitCall("_index_max", <<mv>>, _index_max(mv))

IndiceMaxesCall ==
  \E mv \in UnitDicts, k \in 0..(MaxN + 1) :
    UnitCall("_indice_maxes", <<mv, k>>, _indice_maxes(mv, k))

FilterCall ==
  \E ms \in UnitMatchLists :
    UnitCall("_filter_overlapping_matches", <<ms>>, _filter_overlapping_matches(ms))

\* _enforce_start_trimmers(doc, bp_l, bp_r, trimmers): doc[bp_l] is evaluated
\* first when there are trimmer functions.
StartTrimCall ==
  \E d \in UnitDocs, tr \in {{}, {"punct"}} :
    \E bp_l \in 0..Len(d), bp_r \in 0..Len(d) :
      UnitCall("_enforce_start_trimmers", <<d, bp_l, bp_r, tr>>,
               IF tr # {} /\ ~InRange(d, bp_l) THEN RaisedIndexError
               ELSE _enforce_start_trimmers(d, bp_l, bp_r, tr, {}))

\* _enforce_end_trimmers(doc, bp_l, bp_r, trimmers): doc[bp_r - 1] is
\* evaluated first when there are trimmer functions.
EndTrimCall ==
  \E d \in UnitDocs, tr \in {{}, {"punct"}} :
    \E bp_l \in 0..Len(d), bp_r \in 0..Len(d) :
      UnitCall("_enforce_end_trimmers", <<d, bp_l, bp_r, tr>>,
               IF tr # {} /\ ~InRange(d, bp_r - 1) THEN RaisedIndexError
               ELSE _enforce_end_trimmers(d, bp_l, bp_r, tr, {}))

\* match(str1, str2, fuzzy_func, ignore_case) on any two short strings.
UnitStrings == UNION {[1..k -> Vocab] : k \in 0..MaxQueryLen}

MatchCall ==
  \E str1 \in UnitStrings, str2 \in UnitStrings, ignore_case \in BOOLEAN :
    UnitCall("match", <<str1, str2, ignore_case>>,
             Match(str1, str2, "simple", ignore_case))

\* The helper is done; it leaves nothing behind.
UnitReturn ==
  /\ unit # NoUnit
  /\ unit' = NoUnit
  /\ UNCHANGED <<args, pc, op, n_arg, n, flex, match_values, scans, warnings, outcome, result, remembered>>

InitUnit ==
  InitWith(Args(<<"x">>, "Doc", <<"x">>, "Doc", "simple", <<0, 50>>, FALSE,
                [kind |-> "default"], <<{}, {}, {}>>))

NextUnit ==
  \/ IndexMaxCall
  \/ IndiceMaxesCall
  \/ FilterCall
  \/ StartTrimCall
  \/ EndTrimCall
  \/ MatchCall
  \/ UnitReturn

SpecUnit == InitUnit /\ [][NextUnit]_vars

\* ------------------------------------------------------ the regex searcher
\* A document for the regex searcher is its tokens, each with the length of
\* its text (two characters here) and whether a space follows it; doc.text is the tokens' texts and
\* spaces in order.  Character offsets and token indices start at 0.
TokenLens == {2}
RegexDocs == UNION {[1..k -> [len : TokenLens, ws : BOOLEAN]] : k \in 1..MaxRegexTokens}

\* token.idx of token i; TokenIdx(d, Len(d)) is len(doc.text).
RECURSIVE TokenIdx(_, _)
TokenIdx(d, i) ==
  IF i = 0 THEN 0
  ELSE TokenIdx(d, i - 1) + d[i].len + (IF d[i].ws THEN 1 ELSE 0)

TextLen(d) == TokenIdx(d, Len(d))
\* The offset just past the last character of token i.
TokenEnd(d, i) == TokenIdx(d, i) + d[i + 1].len

\* map_chars_to_tokens(doc): every character of a token's text maps to the
\* token's index; the spaces between tokens map to nothing.
map_chars_to_tokens(d) ==
  [c \in {c \in 0..(TextLen(d) - 1) :
            \E i \in 0..(Len(d) - 1) : TokenIdx(d, i) <= c /\ c < TokenEnd(d, i)}
     |-> CHOOSE i \in 0..(Len(d) - 1) : TokenIdx(d, i) <= c /\ c < TokenEnd(d, i)]

\* dict.get(key): None for a missing key.
Get(m, c) == IF c \in DOMAIN m THEN m[c] ELSE NoneIdx

\* doc.char_span(start, end): the token range when start is the first offset
\* of a token and end is just past the last offset of a token, else None.
char_span(d, start, end) ==
  IF /\ \E i \in 0..(Len(d) - 1) : TokenIdx(d, i) = start
     /\ \E j \in 0..(Len(d) - 1) : TokenEnd(d, j) = end
  THEN <<CHOOSE i \in 0..(Len(d) - 1) : TokenIdx(d, i) = start,
         (CHOOSE j \in 0..(Len(d) - 1) : TokenEnd(d, j) = end) + 1>>
  ELSE NoMatch

\* What compiled_regex.finditer(doc.text) yields: non-empty, non-overlapping
\* hits <<start, end>> from left to right.
HitsFrom(d, lo) ==
  {<<s, e>> \in (lo..TextLen(d)) \X (lo..TextLen(d)) : s < e}

RECURSIVE HitLists(_, _, _)
HitLists(d, lo, k) ==
  IF k = 0 THEN {<<>>}
  ELSE {<<>>} \cup
       UNION {{<<h>> \o rest : rest \in HitLists(d, h[2], k - 1)} : h \in HitsFrom(d, lo)}

\* The loop over the hits of match(): hit number k stands for the hit's
\* fuzzy_counts in the tuple appended for it.
RECURSIVE RegexMatchLoop(_, _, _, _, _)
RegexMatchLoop(d, hits, partial, k, matches) ==
  IF k > Len(hits) THEN matches
  ELSE
    LET start == hits[k][1]
        end == hits[k][2]
        span == char_span(d, start, end)
        start_token == Get(map_chars_to_tokens(d), start)
        end_token == Get(map_chars_to_tokens(d), end)
    IN RegexMatchLoop(d, hits, partial, k + 1,
         IF span # NoMatch THEN Append(matches, <<span[1], span[2], k>>)
         ELSE IF partial /\ Truthy(start_token) /\ Truthy(end_token)
              THEN Append(matches, <<start_token, end_token + 1, k>>)
              ELSE matches)

\* RegexConfig._get_predef: the registry's pattern or ValueError.
_get_predef(rx) == IF rx.known THEN "" ELSE "ValueError"

\* RegexConfig.parse_regex: "" when a compiled pattern comes back, else the
\* name of the error raised.
parse_regex(rx, predef) ==
  IF predef THEN _get_predef(rx)
  ELSE IF rx.compiles THEN "" ELSE "RegexParseError"

\* What a call of match() that raised e gave.
RegexRaised(e) == [err |-> e, searched |-> FALSE, matches |-> <<>>]

\* The type test is left out: parse_regex is called with whatever came, and
\* regex.compile's TypeError comes back as RegexParseError.
Mut_RegexMatchNoTypeTest(d, rx, hits, partial, predef) ==
  LET e == IF rx.type = "str" THEN parse_regex(rx, predef)
           ELSE IF predef THEN "ValueError" ELSE "RegexParseError"
  IN IF e # "" THEN RegexRaised(e)
     ELSE [err |-> "", searched |-> TRUE,
           matches |-> RegexMatchLoop(d, hits, partial, 1, <<>>)]

\* RegexSearcher.match(doc, regex_str, partial, predef); hits is what the
\* compiled pattern finds in doc.text.
RegexMatch(d, rx, hits, partial, predef) ==
  IF rx.type = "str"
  THEN LET e == parse_regex(rx, predef)
       IN IF e # "" THEN RegexRaised(e)
          ELSE [err |-> "", searched |-> TRUE,
                matches |-> RegexMatchLoop(d, hits, partial, 1, <<>>)]
  ELSE RegexRaised("TypeError")

\* A pattern argument: a str or not, naming a predefined pattern or not,
\* compiling as a literal or not.
RegexArgs == [type : {"str", "other"}, known : BOOLEAN, compiles : BOOLEAN]
GoodRegex == [type |-> "str", known |-> TRUE, compiles |-> TRUE]

\* match() with a literal pattern that compiles, over every document.
RegexMatchCall ==
  /\ unit = NoUnit
  /\ \E d \in RegexDocs, partial \in BOOLEAN :
     \E hits \in HitLists(d, 0, MaxHits) :
      UnitCall("RegexSearcher.match", <<d, GoodRegex, hits, partial, FALSE>>,
               RegexMatch(d, GoodRegex, hits, partial, FALSE))

\* match() with any pattern argument, literal or predefined, over the
\* documents of one token.
RegexAnyCall ==
  /\ unit = NoUnit
  /\ \E d \in {d \in RegexDocs : Len(d) = 1}, rx \in RegexArgs, predef \in BOOLEAN :
     \E hits \in HitLists(d, 0, 1) :
      UnitCall("RegexSearcher.match", <<d, rx, hits, TRUE, predef>>,
               RegexMatch(d, rx, hits, TRUE, predef))

NextRegex ==
  \/ RegexMatchCall
  \/ RegexAnyCall
  \/ UnitReturn

SpecRegex == InitUnit /\ [][NextRegex]_vars

\* ================================================================== claims
Returned == pc = "done" /\ outcome = "returned"
ReturnedBy(o) == Returned /\ op = o

\* The flexed, untrimmed edges of candidate pos under the call's arguments.
EdgesOf(pos) ==
  FlexedEdges(args.doc, args.query, match_values, pos, args.fuzzy_func,
              args.ignore_case, flex)

\* The trimmed edges of candidate pos under the call's arguments.
TrimmedOf(pos) ==
  LET st == EdgesOf(pos)
  IN _enforce_trimming_rules(args.doc, st.bp_l, st.bp_r, args.trimmers,
                             args.start_trimmers, args.end_trimmers)

\* The candidates the finished call optimized.
Considered ==
  IF op = "best_match"
  THEN {_index_max(match_values)} \ {NoneIdx}
  ELSE {MultiMatchPositions[i] : i \in 1..Len(MultiMatchPositions)}

\* C1: no two matches returned by multi_match share a token index: the ranges
\* [s1, e1) and [s2, e2) of any two distinct returned matches are disjoint.
C1_NoOverlap ==
  ReturnedBy("multi_match") =>
    \A i, j \in 1..Len(result) :
      i # j => (result[i][2] <= result[j][1] \/ result[j][2] <= result[i][1])

\* C1 witness: multi_match returned two matches after the overlap filter
\* dropped an optimized candidate.
C1_Witness ==
  /\ ReturnedBy("multi_match")
  /\ Len(result) >= 2
  /\ Len(MultiMatchOptimized) > Len(result)

\* C2: every match (start, end, ratio) returned by best_match or multi_match
\* has 0 <= start < end <= len(doc).
C2_ValidSpan ==
  Returned =>
    \A i \in 1..Len(result) :
      /\ 0 <= result[i][1]
      /\ result[i][1] < result[i][2]
      /\ result[i][2] <= Len(args.doc)

\* C2 witness: a call returned a match although the flexed edges of one of
\* its candidates crossed each other (left edge right of the right edge).
C2_Witness ==
  /\ Returned
  /\ result # <<>>
  /\ \E pos \in Considered : EdgesOf(pos).bp_l > EdgesOf(pos).bp_r

\* C3: the ratio of every returned match is match(query.text,
\* doc[start:end].text) on the final, trimmed span.
C3_RatioOfFinalSpan ==
  Returned =>
    \A i \in 1..Len(result) :
      result[i][3] = Match(args.query, Slice(args.doc, result[i][1], result[i][2]),
                           args.fuzzy_func, args.ignore_case)

\* C3 witness: best_match returned a match whose span was trimmed and whose
\* ratio is neither the candidate's scan ratio nor a ratio found while flexing.
C3_Witness ==
  /\ ReturnedBy("best_match")
  /\ result # <<>>
  /\ LET pos == _index_max(match_values)
         st == EdgesOf(pos)
     IN /\ <<result[1][1], result[1][2]>> # <<st.bp_l, st.bp_r>>
        /\ result[1][3] # match_values[pos]
        /\ result[1][3] # st.bmv_l
        /\ result[1][3] # st.bmv_r

\* C4: every returned match has ratio >= min_r2; a candidate whose final
\* trimmed span scores below min_r2 is not in the output.
C4_RatioAtLeastMinR2 ==
  Returned =>
    /\ \A i \in 1..Len(result) : result[i][3] >= args.min_r2
    /\ \A pos \in Considered :
         LET e == TrimmedOf(pos)
         IN (e[1] # NoneIdx /\ e[2] # NoneIdx
             /\ Match(args.query, Slice(args.doc, e[1], e[2]), args.fuzzy_func,
                      args.ignore_case) < args.min_r2)
            => \A i \in 1..Len(result) : <<result[i][1], result[i][2]>> # e

\* C4 witness: multi_match returned a match and dropped a candidate whose
\* trimmed span scored below min_r2.
C4_Witness ==
  /\ ReturnedBy("multi_match")
  /\ result # <<>>
  /\ \E pos \in Considered :
       LET e == TrimmedOf(pos)
       IN /\ e[1] # NoneIdx /\ e[2] # NoneIdx
          /\ Match(args.query, Slice(args.doc, e[1], e[2]), args.fuzzy_func,
                   args.ignore_case) < args.min_r2

\* C5: the list multi_match returns is ordered by descending ratio and, among
\* equal ratios, ascending start index.
C5_Ordered ==
  ReturnedBy("multi_match") =>
    \A i, j \in 1..Len(result) :
      i < j => \/ result[i][3] > result[j][3]
               \/ (result[i][3] = result[j][3] /\ result[i][1] < result[j][1])

\* C5 witness: multi_match returned at least two matches, the optimized
\* candidates were not in order before sorting, and the filter dropped one.
C5_Witness ==
  /\ ReturnedBy("multi_match")
  /\ Len(result) >= 2
  /\ MultiMatchOptimized # SortMatches(MultiMatchOptimized)
  /\ Len(MultiMatchOptimized) > Len(result)

\* Every scan candidate optimized, None dropped, in ranking order.
AllOptimized ==
  LET keys == SortedKeys(match_values, DOMAIN match_values)
  IN DropNone([i \in 1..Len(keys) |-> Optimize(keys[i])])

\* The list obtained by optimizing every scan candidate, sorting by
\* (descending ratio, ascending start) and overlap-filtering.
FullList == _filter_overlapping_matches(SortMatches(AllOptimized))

InList(m, list) == \E i \in 1..Len(list) : list[i] = m

\* C6: whenever some scan candidate optimizes to a match, best_match returns
\* a match, no candidate's optimized match has a strictly higher ratio than
\* the one returned, and among equal ratios the earliest is returned.
C6_BestIsBest ==
  ReturnedBy("best_match") =>
    \A i \in 1..Len(AllOptimized) :
      /\ result # <<>>
      /\ AllOptimized[i][3] <= result[1][3]
      /\ AllOptimized[i][3] = result[1][3] => result[1][1] <= AllOptimized[i][1]

\* C7: multi_match with n > 0 returns the first n elements of the list
\* obtained by optimizing every scan candidate, sorting and overlap-filtering.
C7_NBest ==
  (ReturnedBy("multi_match") /\ n_arg > 0) => result = Prefix(FullList, n_arg)

\* C8: multi_match with n = 0 returns all matches: every scan candidate whose
\* optimized match meets min_r2 and does not overlap a kept match that ranks
\* before it is in the result.
C8_AllMatches ==
  (ReturnedBy("multi_match") /\ n_arg = 0) =>
    \A i \in 1..Len(AllOptimized) :
      LET m == AllOptimized[i]
      IN \/ InList(m, result)
         \/ \E j \in 1..Len(result) :
              Overlap(m, result[j]) /\ ~MatchBefore(m, result[j])

\* The k candidates ranked highest by (descending scan ratio, ascending start).
TopRanked(k) ==
  {p \in DOMAIN match_values :
     Cardinality({o \in DOMAIN match_values :
                    \/ match_values[o] > match_values[p]
                    \/ (match_values[o] = match_values[p] /\ o < p)}) < k}

C10_TypeErrorFirst ==
  (args.doc_type # "Doc" \/ args.query_type # "Doc") =>
    /\ pc \in {"idle", "done"}
    /\ pc = "done" => (outcome = "TypeError" /\ scans = 0 /\ result = <<>>)

\* A call whose doc and query are Docs and whose flex is "default" or an int.
WellTyped ==
  args.doc_type = "Doc" /\ args.query_type = "Doc" /\ args.flex.kind # "other"

\* C11: a call that names a fuzzy matching function the registry lacks always
\* ends in the unknown-function error, with no window scored, for every doc
\* and query, also when the query is longer than the doc.
C11_UnknownFuncFails ==
  (WellTyped /\ args.fuzzy_func \notin FuzzyFuncs /\ pc = "done") =>
    (outcome = "ValueError" /\ scans = 0 /\ result = <<>>)

\* Nothing to find under the call's arguments: no window reaches min_r1, or
\* no scan candidate optimizes to a match (an empty query has only empty
\* spans, which never give a match).
NothingFound ==
  \/ Len(args.query) = 0
  \/ LET mv == _scan_doc(args.doc, args.query, args.fuzzy_func, args.min_r1,
                         args.ignore_case)
         fl == _calc_flex(args.query, args.flex).flex
     IN \A p \in DOMAIN mv :
          _adjust_left_right_positions(args.doc, args.query, mv, p,
              args.fuzzy_func, args.min_r2, args.ignore_case, fl, args.trimmers,
              args.start_trimmers, args.end_trimmers) = NoMatch

\* C12: for well-typed arguments with a registered fuzzy matching function,
\* finding nothing is never an error: the call returns, best_match None and
\* multi_match the empty list.
C12_NothingFoundReturns ==
  (WellTyped /\ args.fuzzy_func \in FuzzyFuncs /\ pc = "done" /\ NothingFound) =>
    (outcome = "returned" /\ result = <<>>)

WindowRatio(i) ==
  Match(args.query, Slice(args.doc, i, i + Len(args.query)), args.fuzzy_func,
        args.ignore_case)

\* The window starts: 0 .. len(doc) - len(query), none when the query is longer.
WindowStarts == 0..(Len(args.doc) - Len(args.query))

C15_IndexMax ==
  unit.fn = "_index_max" =>
    LET mv == unit.in[1]
        out == unit.out
    IN IF DOMAIN mv = {} THEN out = NoneIdx
       ELSE /\ out \in DOMAIN mv
            /\ \A k \in DOMAIN mv :
                 /\ mv[k] <= mv[out]
                 /\ mv[k] = mv[out] => out <= k

\* C15 witness: two keys share the maximum, a lower key has a smaller value,
\* and the lower of the two was returned.
C15_Witness ==
  /\ unit.fn = "_index_max"
  /\ unit.out # NoneIdx
  /\ LET mv == unit.in[1]
     IN /\ \E k \in DOMAIN mv : k > unit.out /\ mv[k] = mv[unit.out]
        /\ \E k \in DOMAIN mv : k < unit.out /\ mv[k] < mv[unit.out]

\* The number of keys that come before key a by descending value, then
\* ascending key.
RankOf(mv, a) ==
  Cardinality({b \in DOMAIN mv : mv[b] > mv[a] \/ (mv[b] = mv[a] /\ b < a)})

SharesIndex(a, b) == a[1] < b[2] /\ b[1] < a[2]

\* C17: _filter_overlapping_matches keeps a match exactly when its range
\* shares no index with the range of a match kept before it: the output is
\* the input restricted, in order, to the positions K where that holds, and
\* starts with the first input element.
C17_FilterKeepsFirstFit ==
  unit.fn = "_filter_overlapping_matches" =>
    LET inp == unit.in[1]
        out == unit.out
    IN /\ \E K \in SUBSET (1..Len(inp)) :
            /\ Len(out) = Cardinality(K)
            /\ \A i \in K : out[Cardinality({j \in K : j <= i})] = inp[i]
            /\ \A i \in 1..Len(inp) :
                 i \in K <=> (\A j \in K : j < i => ~SharesIndex(inp[i], inp[j]))
       /\ inp # <<>> => (out # <<>> /\ out[1] = inp[1])

\* C17 witness: of three matches the second was dropped for the first, and
\* the third was kept although it shares an index with the dropped one.
C17_Witness ==
  /\ unit.fn = "_filter_overlapping_matches"
  /\ Len(unit.in[1]) = 3
  /\ unit.out = <<unit.in[1][1], unit.in[1][3]>>
  /\ SharesIndex(unit.in[1][1], unit.in[1][2])
  /\ SharesIndex(unit.in[1][2], unit.in[1][3])
  /\ unit.in[1][1][2] = unit.in[1][3][1]

\* The call got past _calc_flex.
FlexComputed ==
  pc \in {"scan", "optimize"} \/ (pc = "done" /\ outcome \in {"returned", "ValueError"})

C19_InvalidFlexFails ==
  (/\ args.doc_type = "Doc"
   /\ args.query_type = "Doc"
   /\ ~(args.flex.kind = "default" \/ (args.flex.kind = "int" /\ args.flex.val >= 0))
   /\ pc # "idle")
  => (pc = "done" /\ outcome = "TypeError")

\* C20: for all edges 0 <= bp_l, bp_r <= len(doc) and every set of trimmers,
\* _enforce_start_trimmers and _enforce_end_trimmers give None or an index
\* that leaves bp_l < bp_r; an empty or inverted span always gives None.
C20_TrimNeverEmpty ==
  unit.fn \in {"_enforce_start_trimmers", "_enforce_end_trimmers"} =>
    LET bp_l == unit.in[2]
        bp_r == unit.in[3]
        out == unit.out
    IN \/ out = NoneIdx
       \/ /\ out >= 0
          /\ unit.fn = "_enforce_start_trimmers" => out < bp_r
          /\ unit.fn = "_enforce_end_trimmers" => bp_l < out

\* A finished call of RegexSearcher.match and its arguments.
RegexCalled == unit.fn = "RegexSearcher.match"
RegexDoc == unit.in[1]
RegexArg == unit.in[2]
RegexHits == unit.in[3]
RegexPartial == unit.in[4]
RegexPredef == unit.in[5]
\* Offset c lies in the text of some token.
InToken(d, c) == c \in DOMAIN map_chars_to_tokens(d)
\* Hit h starts where a token starts and ends where a token ends.
Aligned(d, h) == char_span(d, h[1], h[2]) # NoMatch
\* Hit number k has a tuple in the returned list.
Kept(k) == \E i \in 1..Len(unit.out.matches) : unit.out.matches[i][3] = k

\* C21: with partial true, a hit that is not aligned with token boundaries is
\* dropped only if its start or its end offset maps to no token; a hit whose
\* two boundaries fall inside tokens, the first token (index 0) included,
\* always has a match in the returned list.
C21_PartialKeepsMappedHits ==
  (RegexCalled /\ unit.out.err = "" /\ RegexPartial) =>
    \A k \in 1..Len(RegexHits) :
      (/\ ~Aligned(RegexDoc, RegexHits[k])
       /\ InToken(RegexDoc, RegexHits[k][1])
       /\ InToken(RegexDoc, RegexHits[k][2]))
      => Kept(k)

\* C22: with partial true, the span returned for a hit [start, end) that is
\* not aligned runs from the token holding the hit's first character to the
\* token holding its last character: it covers the whole hit and holds no
\* token that lies entirely outside the hit.
C22_WidenedToEnclosingTokens ==
  (RegexCalled /\ unit.out.err = "" /\ RegexPartial) =>
    \A i \in 1..Len(unit.out.matches) :
      LET m == unit.out.matches[i]
          h == RegexHits[m[3]]
          d == RegexDoc
      IN ~Aligned(d, h) =>
           /\ m[1] < m[2]
           /\ TokenIdx(d, m[1]) <= h[1]
           /\ h[2] <= TokenEnd(d, m[2] - 1)
           /\ \A t \in m[1]..(m[2] - 1) :
                TokenIdx(d, t) < h[2] /\ h[1] < TokenEnd(d, t)

\* C23: match fails with ValueError when predef is true and the name is not
\* in the registry, with RegexParseError when a literal pattern does not
\* compile, and with TypeError when the pattern is not a str; each is raised
\* before the text is searched and no list of matches comes back.
C23_PatternErrorsFirst ==
  RegexCalled =>
    LET rx == RegexArg
        expected == IF rx.type # "str" THEN "TypeError"
                    ELSE IF RegexPredef /\ ~rx.known THEN "ValueError"
                    ELSE IF ~RegexPredef /\ ~rx.compiles THEN "RegexParseError"
                    ELSE ""
    IN /\ unit.out.err = expected
       /\ expected # "" => (~unit.out.searched /\ unit.out.matches = <<>>)
       /\ expected = "" => unit.out.searched

\* C23 witness: a pattern that is not a str was handed in with a text that
\* holds a hit; TypeError came back and nothing was searched.
C23_Witness ==
  /\ RegexCalled
  /\ RegexArg.type = "other"
  /\ ~RegexPredef
  /\ Len(RegexHits) = 1
  /\ unit.out.err = "TypeError"
  /\ ~unit.out.searched

\* String t is string s with the case of some letters changed.
CaseVariant(t, s) ==
  Len(t) = Len(s) /\ \A i \in 1..Len(s) : LowerChar(t[i]) = LowerChar(s[i])

\* C24: match with ignore_case true gives the scorer's value on the two
\* lower-cased strings, and the same value for every change of letter case in
\* either string; with ignore_case false it gives the scorer's value on the
\* strings as they are.
C24_MatchIgnoreCase ==
  unit.fn = "match" =>
    LET str1 == unit.in[1]
        str2 == unit.in[2]
        ignore_case == unit.in[3]
    IN /\ ignore_case =>
            /\ unit.out = SimpleRatio(Lower(str1), Lower(str2))
            /\ \A t1 \in UnitStrings, t2 \in UnitStrings :
                 (CaseVariant(t1, str1) /\ CaseVariant(t2, str2))
                 => Match(t1, t2, "simple", TRUE) = unit.out
       /\ ~ignore_case => unit.out = SimpleRatio(str1, str2)

\* C24 witness: two strings that differ in case only were matched with
\* ignore_case true and scored 100, although the scorer gives them less.
C24_Witness ==
  /\ unit.fn = "match"
  /\ unit.in[3]
  /\ unit.in[1] # unit.in[2]
  /\ unit.in[2] # Lower(unit.in[2])
  /\ unit.out = 100
  /\ SimpleRatio(unit.in[1], unit.in[2]) < 100

\* C25: every match returned by best_match or multi_match starts with a token
\* that no active start trimmer accepts and ends with a token that no active
\* end trimmer accepts, whatever the start index of the span, 0 included.
C25_TrimmedEnds ==
  Returned =>
    \A i \in 1..Len(result) :
      /\ ~AnyTrim(get_trimmers("start", args.trimmers, args.start_trimmers, {}),
                  TokenAt(args.doc, result[i][1]))
      /\ ~AnyTrim(get_trimmers("end", args.trimmers, {}, args.end_trimmers),
                  TokenAt(args.doc, result[i][2] - 1))

\* match(query.text, doc[l:r].text) under the call's arguments.
RatioOf(l, r) ==
  Match(args.query, Slice(args.doc, l, r), args.fuzzy_func, args.ignore_case)
\* The positions p_l -/+ f and p_r -/+ f, 1 <= f <= flex, that keep the span
\* inside the doc with left < right while the other edge stays where it was.
LeftMoves(pos) ==
  {l \in {pos - f : f \in 1..flex} \cup {pos + f : f \in 1..flex} :
     0 <= l /\ l < pos + Len(args.query)}
RightMoves(pos) ==
  {r \in {pos + Len(args.query) - f : f \in 1..flex}
           \cup {pos + Len(args.query) + f : f \in 1..flex} :
     pos < r /\ r <= Len(args.doc)}

\* C26: before trimming, each edge of an optimized candidate is either the
\* window's edge with the scan ratio, or a position p -/+ f with 1 <= f <= flex
\* whose span, the other edge left in place, lies inside the doc with
\* left < right and scores strictly above the scan ratio; with flex = 0, or
\* when no such position scores strictly above the scan ratio, the span before
\* trimming is the window [pos, pos + len(query)).
C26_EdgesMoveOnlyUp ==
  Returned =>
    \A pos \in Considered :
      LET st == EdgesOf(pos)
          p_r == pos + Len(args.query)
          mv == match_values[pos]
      IN /\ \/ (st.bp_l = pos /\ st.bmv_l = mv)
            \/ /\ st.bp_l \in LeftMoves(pos)
               /\ st.bmv_l = RatioOf(st.bp_l, p_r)
               /\ st.bmv_l > mv
         /\ \/ (st.bp_r = p_r /\ st.bmv_r = mv)
            \/ /\ st.bp_r \in RightMoves(pos)
               /\ st.bmv_r = RatioOf(pos, st.bp_r)
               /\ st.bmv_r > mv
         /\ (\/ flex = 0
             \/ /\ \A l \in LeftMoves(pos) : RatioOf(l, p_r) <= mv
                /\ \A r \in RightMoves(pos) : RatioOf(pos, r) <= mv)
            => (st.bp_l = pos /\ st.bp_r = p_r)

\* C26 witness: a call with flex >= 1 returned a match after the left edge of
\* its candidate moved to a higher ratio while the right edge stayed, a
\* position right of it scoring the same as the window.
C26_Witness ==
  /\ Returned
  /\ flex >= 1
  /\ result # <<>>
  /\ \E pos \in Considered :
       /\ EdgesOf(pos).bp_l # pos
       /\ EdgesOf(pos).bp_r = pos + Len(args.query)
       /\ \E r \in RightMoves(pos) : RatioOf(pos, r) = match_values[pos]

\* Some active trimmer would strip the query's own first or last token.
QueryTrimmable ==
  /\ Len(args.query) >= 1
  /\ \/ AnyTrim(args.trimmers \cup args.start_trimmers, args.query[1])
     \/ AnyTrim(args.trimmers \cup args.end_trimmers, args.query[Len(args.query)])

\* C27: a call that got as far as _precheck_query has signalled
\* FuzzyPrecheckWarning exactly when the query's first token satisfies an
\* active start trimmer or its last token an active end trimmer; the warning
\* stops nothing: the call scans every window and returns.
C27_PrecheckWarning ==
  /\ (args.doc_type = "Doc" /\ args.query_type = "Doc" /\ pc # "idle"
      /\ outcome # "ZeroDivisionError")
     => ("FuzzyPrecheckWarning" \in warnings <=> QueryTrimmable)
  /\ ("FuzzyPrecheckWarning" \in warnings /\ pc = "done"
      /\ args.flex.kind # "other" /\ get_fuzzy_func_known(args.fuzzy_func))
     => /\ outcome = "returned"
        /\ scans = ScanWindows(args.doc, args.query)

\* C27 witness: a call whose query ends with a token an end trimmer accepts,
\* and starts with one no start trimmer accepts, warned and returned a match.
C27_Witness ==
  /\ Returned
  /\ "FuzzyPrecheckWarning" \in warnings
  /\ ~AnyTrim(args.trimmers \cup args.start_trimmers, args.query[1])
  /\ result # <<>>

\* C28: when best_match returned a match m, multi_match on the same
\* arguments, with any n >= 0, returns a list that is not empty and whose
\* first match has a ratio >= m's.
C28_MultiAtLeastBest ==
  (/\ pc = "done"
   /\ op = "multi_match"
   /\ remembered.op = "best_match"
   /\ remembered.outcome = "returned"
   /\ remembered.result # <<>>)
  => /\ outcome = "returned"
     /\ result # <<>>
     /\ result[1][3] >= remembered.result[1][3]

\* C28 witness: best_match returned a match, and multi_match with n = 0 on
\* the same arguments then returned two matches after dropping an optimized
\* candidate that overlapped.
C28_Witness ==
  /\ ReturnedBy("multi_match")
  /\ n_arg = 0
  /\ remembered.op = "best_match"
  /\ remembered.result # <<>>
  /\ Len(result) >= 2
  /\ Len(MultiMatchOptimized) > Len(result)

\* C29 as first stated: with no trimmer active and a flex from 0 to len(query), a candidate
\* whose scan ratio is >= min_r2 is optimized to a match, never to None, and
\* the match's ratio is >= the scan ratio.
C29_FlexNeverWorse ==
  (/\ Returned
   /\ args.trimmers \cup args.start_trimmers \cup args.end_trimmers = {}
   /\ 0 <= flex
   /\ flex <= Len(args.query))
  => \A pos \in Considered :
       match_values[pos] >= args.min_r2
       => /\ Optimize(pos) # NoMatch
          /\ Optimize(pos)[3] >= match_values[pos]

\* C29: with no trimmer active, a non-empty query and a flex from 0
\* to len(query), a candidate whose scan ratio is >= min_r2 and of whose two
\* edges at most one moved while flexing is optimized to a match, never to
\* None, and the match's ratio is >= the scan ratio.
C29_FlexNeverWorseOneEdge ==
  (/\ Returned
   /\ args.trimmers \cup args.start_trimmers \cup args.end_trimmers = {}
   /\ Len(args.query) >= 1
   /\ 0 <= flex
   /\ flex <= Len(args.query))
  => \A pos \in Considered :
       (/\ match_values[pos] >= args.min_r2
        /\ \/ EdgesOf(pos).bp_l = pos
           \/ EdgesOf(pos).bp_r = pos + Len(args.query))
       => /\ Optimize(pos) # NoMatch
          /\ Optimize(pos)[3] >= match_values[pos]

\* C29 witness: with no trimmer active, a candidate with a scan ratio of
\* exactly min_r2 kept one edge, moved the other and was optimized to a match
\* with a higher ratio.
C29_Witness ==
  /\ Returned
  /\ args.trimmers \cup args.start_trimmers \cup args.end_trimmers = {}
  /\ flex >= 1
  /\ flex <= Len(args.query)
  /\ \E pos \in Considered :
       /\ match_values[pos] = args.min_r2
       /\ EdgesOf(pos).bp_l = pos
       /\ EdgesOf(pos).bp_r # pos + Len(args.query)
       /\ Optimize(pos) # NoMatch
       /\ Optimize(pos)[3] > match_values[pos]

====
